---- MODULE Spec2Model ----
(***************************************************************************)
(* tess_gaia_ps.py: Gaia -> TIC lookup, TESS light-curve search with       *)
(* cadence fallback, download + normalize + stitch with one retry after    *)
(* corrupt-file cleanup, and the periodogram plot.                         *)
(*                                                                         *)
(* Three specifications:                                                   *)
(*   Spec      one run of the script (the __main__ block and all it calls) *)
(*   SpecClean _clean_corrupt_file applied twice to a message and a cache  *)
(*   SpecNorm  _to_sap_lightcurve applied to one downloaded object         *)
(***************************************************************************)
EXTENDS Integers, Sequences, FiniteSets, TLC

VARIABLES
    pc,        \* position of the script: "main", "resolve", "search", ...
    argc,      \* len(sys.argv)
    tblLen,    \* rows the TIC catalog holds for the Gaia source
    answers,   \* number of files each lk.search_lightcurve call found
    queried,   \* exptimes passed to lk.search_lightcurve, in call order
    srch,      \* the SearchResult in hand (sequence of products)
    i,         \* enumerate(srch, 1) index of download_and_stitch
    attempt,   \* the loop variable of "for attempt in (1, 2)"
    lc,        \* local variable lc of download_and_stitch
    lcs,       \* the accumulator list
    cache,     \* files present in the local download cache
    stitched,  \* result of download_and_stitch
    plotted,   \* plot_periodogram has been invoked
    status,    \* process exit status, -1 while running
    stderr,    \* lines written to stderr at exit
    err,       \* the exception that left download_and_stitch
    downloads, \* history: entry -> calls of prod.download
    fails,     \* history: the attempts that raised
    cleaned,   \* history: the calls of _clean_corrupt_file
    removed,   \* history: the files _clean_corrupt_file unlinked
    produced,  \* history: entry -> the FluxSeries its last good attempt gave
    cMsg,      \* SpecClean: the diagnostic message
    cCaches,   \* SpecClean: cache before, after call 1, after call 2
    cRaised,   \* SpecClean: a call raised
    nObj,      \* SpecNorm: the downloaded object
    nOut,      \* SpecNorm: the LightCurve returned
    nStep      \* SpecClean / SpecNorm: calls made so far

mainVars == <<pc, argc, tblLen, answers, queried, srch, i, attempt, lc, lcs,
              cache, stitched, plotted, status, stderr, err, downloads, fails,
              cleaned, removed, produced>>
cleanVars == <<cMsg, cCaches, cRaised>>
normVars == <<nObj, nOut>>

vars == <<mainVars, cleanVars, normVars, nStep>>

-----------------------------------------------------------------------------
(* Bounds *)

MaxFiles == 2      \* files MAST holds per cadence, and distinct cache files
MaxSamples == 2    \* samples of one FluxSeries in a run of the script
MaxRows == 2       \* rows of an enumerated downloaded object

-----------------------------------------------------------------------------
(* Text: a string is a sequence of one-character strings *)

FitsSuffix == <<".", "f", "i", "t", "s">>

FileNames == <<"a", "b", "c", "e">>

\* Absolute path of the cache file of the k-th product of a search result.
CachePath(k) == <<"/", "d", "/", FileNames[k]>> \o FitsSuffix

\* A file outside the download directory whose name the regex can produce.
StrayPath(k) == <<"/", FileNames[k]>> \o FitsSuffix

RECURSIVE CollapseSlashes(_)
CollapseSlashes(s) ==
    IF Len(s) < 2 THEN s
    ELSE IF s[1] = "/" /\ s[2] = "/" THEN CollapseSlashes(Tail(s))
    ELSE <<s[1]>> \o CollapseSlashes(Tail(s))

\* Path(text) as the file system resolves it: runs of "/" name the same file.
PathOf(s) == CollapseSlashes(s)

\* s[a..b] has no space: it is matched by [^ ]*
NoSpace(s, a, b) == \A k \in a..b : s[k] # " "

EndsFitsAt(s, e) ==
    /\ e - 4 >= 1
    /\ e <= Len(s)
    /\ SubSeq(s, e - 4, e) = FitsSuffix

\* The pattern (/[^ ]+\.fits) matches s[a..e].
MatchesAt(s, a, e) ==
    /\ s[a] = "/"
    /\ e >= a + 6
    /\ EndsFitsAt(s, e)
    /\ NoSpace(s, a + 1, e - 5)

MatchStarts(s) == {a \in 1..Len(s) : \E e \in a..Len(s) : MatchesAt(s, a, e)}

Min(S) == CHOOSE x \in S : \A y \in S : x <= y
Max(S) == CHOOSE x \in S : \A y \in S : x >= y

\* re.search(r"(/[^ ]+\.fits)", err_msg): <<>> when there is no match, else
\* <<group 1>>: the leftmost match, and at that start the longest one.
ReSearchFits(s) ==
    IF MatchStarts(s) = {} THEN <<>>
    ELSE LET a == Min(MatchStarts(s))
             e == Max({x \in a..Len(s) : MatchesAt(s, a, x)})
         IN  <<SubSeq(s, a, e)>>

-----------------------------------------------------------------------------
(* 3. _clean_corrupt_file *)

\* Path.unlink(missing_ok): removes the file; raises when it is missing and
\* missing_ok is false.
Unlink(p, files, missing_ok) ==
    [files |-> files \ {p}, raised |-> (p \notin files) /\ ~missing_ok]

\* Variant: empties the cache instead of unlinking the one file.
CleanWholeDir(err_msg, files) ==
    LET m == ReSearchFits(err_msg)
    IN  IF m # <<>> /\ PathOf(m[1]) \in files
        THEN [files |-> {}, raised |-> FALSE]
        ELSE [files |-> files, raised |-> FALSE]

CleanCorruptFile(err_msg, files) ==
    LET m == ReSearchFits(err_msg)
    IN  IF m # <<>>
        THEN LET p == PathOf(m[1])
             IN  IF p \in files
                 THEN Unlink(p, files, TRUE)
                 ELSE [files |-> files, raised |-> FALSE]
        ELSE [files |-> files, raised |-> FALSE]

-----------------------------------------------------------------------------
(* Diagnostic messages of lk.utils.LightkurveError *)

MsgShapes == {"paren", "bare", "uri", "spacedir", "gz", "nopath", "two"}

\* The text of a LightkurveError about the k-th product, in several shapes
\* (the format is lightkurve's, not the script's).
MsgText(shape, k) ==
    CASE shape = "paren" ->
            <<"o", "p", "e", "n", " ", "(">> \o CachePath(k) \o <<")", ".">>
      [] shape = "bare" -> CachePath(k)
      [] shape = "uri" -> <<"f", ":", "/", "/">> \o CachePath(k) \o <<" ", "x">>
      [] shape = "spacedir" ->
            <<"/", "m", "y", " ", "d", "/", FileNames[k]>> \o FitsSuffix
      [] shape = "gz" -> CachePath(k) \o <<".", "g", "z">>
      [] shape = "two" -> CachePath(k) \o <<" ">> \o CachePath(1)
      [] OTHER -> <<"t", "i", "m", "e", "d", " ", "o", "u", "t">>

AllFiles == {CachePath(k) : k \in 1..MaxFiles} \cup {StrayPath(k) : k \in 1..MaxFiles}

-----------------------------------------------------------------------------
(* Process boundary *)

NoErr ==
    [type |-> "none", entry |-> 0, attempt |-> 0, shape |-> "none",
     stage |-> "none"]

\* sys.exit(text): the text on one line of stderr, exit status 1.
ExitLines(shape) ==
    <<[kind |-> "message", type |-> "SystemExit", shape |-> shape, entry |-> 0]>>

\* An exception nothing catches: the interpreter prints the traceback (header,
\* the frames of <module> and download_and_stitch, then "Type: message") and
\* exits with status 1.
TracebackLines(e) ==
    <<[kind |-> "header", type |-> "Traceback", shape |-> "none", entry |-> 0],
      [kind |-> "frame", type |-> "<module>", shape |-> "none", entry |-> 0],
      [kind |-> "frame", type |-> "download_and_stitch", shape |-> "none",
       entry |-> 0],
      [kind |-> "exception", type |-> e.type, shape |-> e.shape,
       entry |-> e.entry]>>

SysExit(shape) ==
    /\ pc' = "done"
    /\ status' = 1
    /\ stderr' = ExitLines(shape)

Uncaught(e) ==
    /\ pc' = "done"
    /\ status' = 1
    /\ stderr' = TracebackLines(e)
    /\ err' = e

-----------------------------------------------------------------------------
(* 5. Command-line entry point, 1. gaia_to_tic, 2. search_tess_lc *)

Exptimes == <<20, 120, 1800>>

\* lk.search_lightcurve(f"TIC {tic_id}", mission="TESS", exptime=exptime)
\* with n files in the archive at that cadence
SearchLightcurve(exptime, n) ==
    [k \in 1..n |-> [exptime |-> exptime, idx |-> k]]

Main ==
    /\ pc = "main"
    /\ IF argc # 2
       THEN SysExit("usage")
       ELSE pc' = "resolve" /\ UNCHANGED <<status, stderr>>
    /\ UNCHANGED <<argc, tblLen, answers, queried, srch, i, attempt, lc, lcs,
                   cache, stitched, plotted, err, downloads, fails, cleaned,
                   removed, produced, cleanVars, normVars, nStep>>

GaiaToTic ==
    /\ pc = "resolve"
    /\ IF tblLen = 0
       THEN SysExit("nomatch")
       ELSE pc' = "search" /\ UNCHANGED <<status, stderr>>
    /\ UNCHANGED <<argc, tblLen, answers, queried, srch, i, attempt, lc, lcs,
                   cache, stitched, plotted, err, downloads, fails, cleaned,
                   removed, produced, cleanVars, normVars, nStep>>

\* Variant: go on to the next cadence although this one had files.
KeepSearchingNever(found) == FALSE

\* One pass of "for exptime in (20, 120, 1800)" returns when it found files.
ReturnsOnFound(found) == Len(found) > 0

SearchCadence(n) ==
    /\ pc = "search"
    /\ Len(queried) < Len(Exptimes)
    /\ LET exptime == Exptimes[Len(queried) + 1]
           found == SearchLightcurve(exptime, n)
       IN  /\ queried' = Append(queried, exptime)
           /\ answers' = Append(answers, n)
           /\ IF ReturnsOnFound(found)
              THEN srch' = found /\ pc' = "observed"
              ELSE UNCHANGED <<srch, pc>>
    /\ UNCHANGED <<argc, tblLen, i, attempt, lc, lcs, cache, stitched,
                   plotted, status, stderr, err, downloads, fails, cleaned,
                   removed, produced, cleanVars, normVars, nStep>>

SearchExhausted ==
    /\ pc = "search"
    /\ Len(queried) = Len(Exptimes)
    /\ srch' = <<>>
    /\ pc' = "observed"
    /\ UNCHANGED <<argc, tblLen, answers, queried, i, attempt, lc, lcs, cache,
                   stitched, plotted, status, stderr, err, downloads, fails,
                   cleaned, removed, produced, cleanVars, normVars, nStep>>

\* Variant: the empty result is not noticed.
IsEmptyNever(result) == FALSE

\* if len(srch) == 0
IsEmpty(result) == Len(result) = 0

CheckObserved ==
    /\ pc = "observed"
    /\ IF IsEmpty(srch)
       THEN SysExit("notobserved")
       ELSE pc' = "stitch" /\ UNCHANGED <<status, stderr>>
    /\ UNCHANGED <<argc, tblLen, answers, queried, srch, i, attempt, lc, lcs,
                   cache, stitched, plotted, err, downloads, fails, cleaned,
                   removed, produced, cleanVars, normVars, nStep>>

-----------------------------------------------------------------------------
(* 3. download_and_stitch *)

Attempts == <<1, 2>>

LastAttempt == 2

\* The FluxSeries of a product: n samples, each knowing where it came from.
NewSeries(prod, n) ==
    [j \in 1..n |-> [exptime |-> prod.exptime, idx |-> prod.idx, n |-> j]]

RECURSIVE Concat(_)
Concat(seqs) ==
    IF seqs = <<>> THEN <<>> ELSE Head(seqs) \o Concat(Tail(seqs))

\* Variant: a stitch that drops samples repeating a later segment's number.
RECURSIVE ConcatDedup(_)
ConcatDedup(seqs) ==
    IF seqs = <<>> THEN <<>>
    ELSE LET rest == ConcatDedup(Tail(seqs))
         IN  SelectSeq(Head(seqs),
                       LAMBDA x : \A k \in 1..Len(rest) : rest[k].n # x.n) \o rest

\* lk.LightCurveCollection(lcs).stitch(): the segments end to end.
StitchLcs(seqs) == Concat(seqs)

\* Variant: lcs.insert(0, lc)
AppendFront(list, x) == <<x>> \o list

\* lcs.append(lc)
AppendLc(list, x) == Append(list, x)

\* Variant: the handler never re-raises.
RaisesNever(a) == FALSE

\* if attempt == 2: raise
RaisesOn(a) == a = LastAttempt

\* After the retry loop of entry i: lcs.append(lc), then the next entry.
NextEntry(series) ==
    /\ lcs' = AppendLc(lcs, series)
    /\ i' = i + 1
    /\ attempt' = 1

\* try: download and normalize succeed; break; lcs.append(lc)
AttemptOk(n) ==
    /\ pc = "stitch"
    /\ i <= Len(srch)
    /\ LET series == NewSeries(srch[i], n)
       IN  /\ lc' = [bound |-> TRUE, samples |-> series]
           /\ NextEntry(series)
           /\ produced' = [produced EXCEPT ![i] = series]
    /\ downloads' = [downloads EXCEPT ![i] = @ + 1]
    /\ cache' = cache \cup {CachePath(srch[i].idx)}
    /\ UNCHANGED <<pc, argc, tblLen, answers, queried, srch, stitched, plotted,
                   status, stderr, err, fails, cleaned, removed, cleanVars,
                   normVars, nStep>>

\* The cache after a download attempt: the file is there when the transport
\* wrote it (whole or in part), and always when normalization was reached.
AfterDownload(stage, written) ==
    IF stage = "normalize" \/ written
    THEN cache \cup {CachePath(srch[i].idx)}
    ELSE cache

\* Variant: a handler that only prints.
HandlerSkipsClean(e, files) == [files |-> files, raised |-> FALSE, called |-> {}]

\* print(...); _clean_corrupt_file(str(e))
HandlerClean(e, files) ==
    LET r == CleanCorruptFile(MsgText(e.shape, srch[e.entry].idx), files)
    IN  [files |-> r.files, raised |-> r.raised, called |-> {e}]

\* Variant: except Exception as e
CatchesAll(type) == TRUE

\* except lk.utils.LightkurveError as e
Catches(type) == type = "LightkurveError"

\* try: prod.download or _to_sap_lightcurve raises. A LightkurveError goes to
\* the handler, which cleans, then re-raises or lets the loop go on; any other
\* exception leaves download_and_stitch at once.
AttemptRaises(type, shape, stage, written) ==
    /\ pc = "stitch"
    /\ i <= Len(srch)
    /\ (type = "LightkurveError") = (shape # "none")
    /\ LET e == [type |-> type, entry |-> i, attempt |-> Attempts[attempt],
                 shape |-> shape, stage |-> stage]
           before == AfterDownload(stage, written)
       IN  /\ downloads' = [downloads EXCEPT ![i] = @ + 1]
           /\ fails' = fails \cup {e}
           /\ IF Catches(type)
              THEN LET r == HandlerClean(e, before)
                   IN  /\ cleaned' = cleaned \cup r.called
                       /\ removed' = removed \cup
                              {[entry |-> i, attempt |-> Attempts[attempt],
                                path |-> f] : f \in before \ r.files}
                       /\ cache' = r.files
                       /\ IF r.raised
                          THEN /\ Uncaught([e EXCEPT !.type = "FileNotFoundError"])
                               /\ UNCHANGED <<i, attempt, lc, lcs>>
                          ELSE IF RaisesOn(Attempts[attempt])
                          THEN /\ Uncaught(e)
                               /\ UNCHANGED <<i, attempt, lc, lcs>>
                          ELSE IF attempt < Len(Attempts)
                          THEN /\ attempt' = attempt + 1
                               /\ UNCHANGED <<pc, status, stderr, err, i, lc, lcs>>
                          ELSE IF lc.bound
                          THEN /\ NextEntry(lc.samples)
                               /\ UNCHANGED <<pc, status, stderr, err, lc>>
                          ELSE /\ Uncaught([e EXCEPT !.type = "UnboundLocalError"])
                               /\ UNCHANGED <<i, attempt, lc, lcs>>
              ELSE /\ cache' = before
                   /\ Uncaught(e)
                   /\ UNCHANGED <<cleaned, removed, i, attempt, lc, lcs>>
    /\ UNCHANGED <<argc, tblLen, answers, queried, srch, stitched, plotted,
                   produced, cleanVars, normVars, nStep>>

\* stitched = lk.LightCurveCollection(lcs).stitch(); return stitched
StitchAll ==
    /\ pc = "stitch"
    /\ i > Len(srch)
    /\ stitched' = [done |-> TRUE, samples |-> StitchLcs(lcs)]
    /\ pc' = "plot"
    /\ UNCHANGED <<argc, tblLen, answers, queried, srch, i, attempt, lc, lcs,
                   cache, plotted, status, stderr, err, downloads, fails,
                   cleaned, removed, produced, cleanVars, normVars, nStep>>

\* 4. plot_periodogram(lc, gaia_id); the script then ends with status 0.
PlotPeriodogram ==
    /\ pc = "plot"
    /\ plotted' = TRUE
    /\ pc' = "done"
    /\ status' = 0
    /\ UNCHANGED <<argc, tblLen, answers, queried, srch, i, attempt, lc, lcs,
                   cache, stitched, stderr, err, downloads, fails, cleaned,
                   removed, produced, cleanVars, normVars, nStep>>

-----------------------------------------------------------------------------
(* Spec: one run of the script *)

RunShapes == {"paren", "spacedir", "nopath"}

InitCaches == {{}, {CachePath(1)}, AllFiles}

Idle ==
    /\ cMsg = <<>>
    /\ cCaches = <<>>
    /\ cRaised = FALSE
    /\ nObj = <<>>
    /\ nOut = <<>>
    /\ nStep = 0

Init ==
    /\ pc = "main"
    /\ argc \in 1..3
    /\ tblLen \in 0..1
    /\ answers = <<>>
    /\ queried = <<>>
    /\ srch = <<>>
    /\ i = 1
    /\ attempt = 1
    /\ lc = [bound |-> FALSE, samples |-> <<>>]
    /\ lcs = <<>>
    /\ cache \in InitCaches
    /\ stitched = [done |-> FALSE, samples |-> <<>>]
    /\ plotted = FALSE
    /\ status = -1
    /\ stderr = <<>>
    /\ err = NoErr
    /\ downloads = [k \in 1..MaxFiles |-> 0]
    /\ fails = {}
    /\ cleaned = {}
    /\ removed = {}
    /\ produced = [k \in 1..MaxFiles |-> <<>>]
    /\ Idle

Next ==
    \/ Main
    \/ GaiaToTic
    \/ \E n \in 0..MaxFiles : SearchCadence(n)
    \/ SearchExhausted
    \/ CheckObserved
    \/ \E n \in 1..MaxSamples : AttemptOk(n)
    \/ \E type \in {"LightkurveError", "OtherError"},
          shape \in RunShapes \cup {"none"}, stage \in {"download", "normalize"},
          written \in BOOLEAN : AttemptRaises(type, shape, stage, written)
    \/ StitchAll
    \/ PlotPeriodogram

Spec == Init /\ [][Next]_vars

-----------------------------------------------------------------------------
(* SpecClean: _clean_corrupt_file(err_msg) called twice on one cache *)

MaxTokens == 4     \* pieces of an enumerated diagnostic message

Tokens == {<<"/">>, <<" ">>, <<"x">>, FitsSuffix}

RECURSIVE TokenTexts(_)
TokenTexts(n) ==
    IF n = 0 THEN {<<>>}
    ELSE TokenTexts(n - 1) \cup
         {t \o tok : t \in TokenTexts(n - 1), tok \in Tokens}

CleanMessages ==
    {MsgText(shape, k) : shape \in MsgShapes, k \in 1..2} \cup TokenTexts(MaxTokens)

CleanFiles ==
    {CachePath(1), CachePath(2), StrayPath(2),
     <<"/", "x">> \o FitsSuffix, <<"/">> \o FitsSuffix}

InitClean ==
    /\ cMsg \in CleanMessages
    /\ \E files \in SUBSET CleanFiles : cCaches = <<files>>
    /\ cRaised = FALSE
    /\ nStep = 0
    /\ nObj = <<>>
    /\ nOut = <<>>
    /\ pc = "clean"
    /\ argc = 2
    /\ tblLen = 0
    /\ answers = <<>>
    /\ queried = <<>>
    /\ srch = <<>>
    /\ i = 1
    /\ attempt = 1
    /\ lc = [bound |-> FALSE, samples |-> <<>>]
    /\ lcs = <<>>
    /\ cache = {}
    /\ stitched = [done |-> FALSE, samples |-> <<>>]
    /\ plotted = FALSE
    /\ status = -1
    /\ stderr = <<>>
    /\ err = NoErr
    /\ downloads = <<>>
    /\ fails = {}
    /\ cleaned = {}
    /\ removed = {}
    /\ produced = <<>>

CleanCall ==
    /\ pc = "clean"
    /\ nStep < 2
    /\ LET r == CleanCorruptFile(cMsg, cCaches[Len(cCaches)])
       IN  /\ cCaches' = Append(cCaches, r.files)
           /\ cRaised' = (cRaised \/ r.raised)
    /\ nStep' = nStep + 1
    /\ UNCHANGED <<mainVars, cMsg, normVars>>

NextClean == CleanCall

SpecClean == InitClean /\ [][NextClean]_vars

-----------------------------------------------------------------------------
(* SpecNorm: _to_sap_lightcurve(obj) *)

LongRows == 102    \* rows of the long objects, enough for a 10-sigma outlier

NaN == 0 - 1

PPM == 1000000

Sigma == 10

ClipIters == 5

Range(f) == {f[k] : k \in DOMAIN f}

RECURSIVE SumSeq(_)
SumSeq(xs) == IF xs = <<>> THEN 0 ELSE Head(xs) + SumSeq(Tail(xs))

\* The k-th smallest of xs.
Kth(xs, k) ==
    CHOOSE v \in Range(xs) :
        /\ Cardinality({j \in 1..Len(xs) : xs[j] < v}) < k
        /\ Cardinality({j \in 1..Len(xs) : xs[j] <= v}) >= k

\* Twice the median of a non-empty xs (np.nanmedian of NaN-free values).
Median2(xs) ==
    LET n == Len(xs)
    IN  IF n % 2 = 1 THEN 2 * Kth(xs, (n + 1) \div 2)
        ELSE Kth(xs, n \div 2) + Kth(xs, n \div 2 + 1)

Fluxes(rows) == [k \in 1..Len(rows) |-> rows[k].flux]

\* obj.to_lightcurve(flux_column="sap_flux") of a TargetPixelFile: the series
\* of the aperture sums.
ToLightcurve(obj, flux_column) ==
    [cols |-> {"flux_err"},
     rows |-> [k \in 1..Len(obj.rows) |->
                  [time |-> obj.rows[k].time,
                   flux |-> IF flux_column = "sap_flux"
                            THEN obj.rows[k].sap_flux ELSE obj.rows[k].flux,
                   flux_err |-> IF flux_column = "sap_flux"
                                THEN obj.rows[k].sap_flux_err
                                ELSE obj.rows[k].flux_err]]]

\* Variant: the default flux column is kept although sap_flux exists.
SelectKeepsDefault(obj) ==
    IF obj.shape = "lc"
    THEN [cols |-> obj.cols,
          rows |-> [k \in 1..Len(obj.rows) |->
                       [time |-> obj.rows[k].time, flux |-> obj.rows[k].flux,
                        flux_err |-> obj.rows[k].flux_err]]]
    ELSE ToLightcurve(obj, "sap_flux")

\* The branches of _to_sap_lightcurve before "Clean & normalize": the table
\* whose flux (and flux_err) columns the rest works on.
SelectSap(obj) ==
    IF obj.shape = "lc"
    THEN IF "sap_flux" \in obj.cols
         THEN [cols |-> obj.cols,
               rows |-> [k \in 1..Len(obj.rows) |->
                   [time |-> obj.rows[k].time,
                    flux |-> obj.rows[k].sap_flux,
                    flux_err |-> IF "flux_err" \in obj.cols
                                    /\ "sap_flux_err" \in obj.cols
                                 THEN obj.rows[k].sap_flux_err
                                 ELSE obj.rows[k].flux_err]]]
         ELSE [cols |-> obj.cols,
               rows |-> [k \in 1..Len(obj.rows) |->
                   [time |-> obj.rows[k].time, flux |-> obj.rows[k].flux,
                    flux_err |-> obj.rows[k].flux_err]]]
    ELSE ToLightcurve(obj, "sap_flux")

\* lc.remove_nans(): the rows whose flux is a number.
RemoveNans(rows) == SelectSeq(rows, LAMBDA r : r.flux # NaN)

\* A flux value scaled to ppm of the median: the rational scale * n / d.
Scaled(v, med2) == [n |-> 2 * v, d |-> med2, scale |-> PPM]

\* lc.normalize(unit="ppm"): flux and flux_err over the median flux, in ppm.
Normalize(rows) ==
    IF rows = <<>> THEN <<>>
    ELSE LET med2 == Median2(Fluxes(rows))
         IN  [k \in 1..Len(rows) |->
                 [time |-> rows[k].time,
                  flux |-> Scaled(rows[k].flux, med2),
                  flux_err |-> Scaled(rows[k].flux_err, med2)]]

\* |x - median| > Sigma * std over the values xs, all of them in units of
\* scale / d: n^2 (2x - med2)^2 > 4 Sigma^2 (n sum(x^2) - sum(x)^2).
IsOutlier(x, xs) ==
    LET n == Len(xs)
        s == SumSeq(xs)
        q == SumSeq([k \in 1..n |-> xs[k] * xs[k]])
        med2 == Median2(xs)
    IN  n * n * (2 * x - med2) * (2 * x - med2) > 4 * Sigma * Sigma * (n * q - s * s)

RECURSIVE SigmaClip(_, _)
SigmaClip(rows, iters) ==
    IF iters = 0 \/ rows = <<>> THEN rows
    ELSE LET xs == [k \in 1..Len(rows) |-> rows[k].flux.n]
             kept == SelectSeq(rows, LAMBDA r : ~IsOutlier(r.flux.n, xs))
         IN  IF kept = rows THEN rows ELSE SigmaClip(kept, iters - 1)

\* lc.remove_outliers(sigma=10): astropy's sigma_clip, at most 5 rounds.
RemoveOutliers(rows) == SigmaClip(rows, ClipIters)

\* _to_sap_lightcurve(obj)
ToSapLightcurve(obj) == RemoveOutliers(Normalize(RemoveNans(SelectSap(obj).rows)))

OptionalCols == {"sap_flux", "flux_err", "sap_flux_err"}

RowOf(t, f, sf) ==
    [time |-> t, flux |-> f, flux_err |-> 1, sap_flux |-> sf, sap_flux_err |-> 7]

RECURSIVE RowSeqs(_)
RowSeqs(n) ==
    IF n = 0 THEN {<<>>}
    ELSE RowSeqs(n - 1) \cup
         {Append(rs, RowOf(Len(rs) + 1, f, sf)) :
              rs \in {x \in RowSeqs(n - 1) : Len(x) = n - 1},
              f \in {NaN, 2, 4}, sf \in {NaN, 3, 5}}

\* LongRows rows, flat but for one bright sample (and one NaN) in each channel.
LongSeq ==
    [t \in 1..LongRows |->
        RowOf(t, IF t = 7 THEN 60 ELSE IF t = 9 THEN NaN ELSE 2,
                 IF t = 8 THEN 90 ELSE IF t = 9 THEN NaN ELSE 3)]

Objects ==
    {[shape |-> sh, cols |-> cs, rows |-> rs] :
        sh \in {"lc"}, cs \in SUBSET OptionalCols,
        rs \in RowSeqs(MaxRows) \cup {LongSeq}}
    \cup
    {[shape |-> sh, cols |-> cs, rows |-> rs] :
        sh \in {"tpf"}, cs \in {{}}, rs \in RowSeqs(MaxRows) \cup {LongSeq}}

InitNorm ==
    /\ nObj \in Objects
    /\ nOut = <<>>
    /\ nStep = 0
    /\ cMsg = <<>>
    /\ cCaches = <<>>
    /\ cRaised = FALSE
    /\ pc = "normalize"
    /\ argc = 2
    /\ tblLen = 0
    /\ answers = <<>>
    /\ queried = <<>>
    /\ srch = <<>>
    /\ i = 1
    /\ attempt = 1
    /\ lc = [bound |-> FALSE, samples |-> <<>>]
    /\ lcs = <<>>
    /\ cache = {}
    /\ stitched = [done |-> FALSE, samples |-> <<>>]
    /\ plotted = FALSE
    /\ status = -1
    /\ stderr = <<>>
    /\ err = NoErr
    /\ downloads = <<>>
    /\ fails = {}
    /\ cleaned = {}
    /\ removed = {}
    /\ produced = <<>>

NormCall ==
    /\ pc = "normalize"
    /\ nStep = 0
    /\ nOut' = ToSapLightcurve(nObj)
    /\ nStep' = 1
    /\ UNCHANGED <<mainVars, cleanVars, nObj>>

NextNorm == NormCall

SpecNorm == InitNorm /\ [][NextNorm]_vars

-----------------------------------------------------------------------------
(* Properties of one run (Spec) *)

Entries == 1..Len(srch)

\* The recoverable failures (LightkurveError) logged for entry k.
ReadFails(k) == {f \in fails : f.entry = k /\ f.type = "LightkurveError"}

\* The text of the message of a logged failure.
TextOf(f) == MsgText(f.shape, srch[f.entry].idx)

Raised == pc = "done" /\ status # 0 /\ err # NoErr

\* C1: prod.download is called at most 2 times for any entry, whatever the
\* outcomes; once an entry has failed twice with a recoverable error, the
\* pipeline has raised that second error and no third attempt was made.
C1_RetryBound ==
    /\ \A k \in DOMAIN downloads : downloads[k] <= 2
    /\ \A k \in Entries :
          Cardinality(ReadFails(k)) = 2 =>
              /\ Raised
              /\ err \in ReadFails(k)
              /\ err.attempt = 2
              /\ downloads[k] = 2
              /\ ~stitched.done

C1_Witness == \E k \in Entries : Cardinality(ReadFails(k)) = 2 /\ k > 1

\* C2: no silent omission. Two recoverable failures on an entry propagate the
\* second error, no StitchedSeries is returned and no later entry is
\* downloaded; a returned result means the accumulator holds one FluxSeries
\* per entry of the batch, that entry's own, in batch order.
C2_NoSilentOmission ==
    /\ \A k \in Entries :
          Cardinality(ReadFails(k)) = 2 =>
              /\ err.type = "LightkurveError" /\ err.entry = k
              /\ stderr[Len(stderr)].shape = err.shape
              /\ ~stitched.done /\ ~plotted
              /\ Len(lcs) = k - 1
              /\ \A m \in Entries : m > k => downloads[m] = 0
    /\ stitched.done =>
          /\ err = NoErr
          /\ Len(lcs) = Len(srch)
          /\ \A k \in Entries :
                /\ lcs[k] # <<>>
                /\ \A j \in 1..Len(lcs[k]) :
                      /\ lcs[k][j].idx = srch[k].idx
                      /\ lcs[k][j].exptime = srch[k].exptime

C2_Witness ==
    /\ Len(srch) = MaxFiles
    /\ Cardinality(ReadFails(1)) = 2
    /\ pc = "done"

\* C3: when attempt 2 on an entry is about to start, _clean_corrupt_file has
\* been called with the message of the failure of attempt 1, and the file that
\* message names (if it names one) is not in the cache; an entry whose attempt
\* 2 succeeded is in the accumulator with that attempt's FluxSeries, and the
\* pipeline goes on to return a StitchedSeries of all entries without raising.
C3_RecoverThenRetry ==
    /\ (pc = "stitch" /\ i <= Len(srch) /\ attempt = 2) =>
          \E f \in ReadFails(i) :
             /\ f.attempt = 1
             /\ f \in cleaned
             /\ ReSearchFits(TextOf(f)) # <<>> =>
                   PathOf(ReSearchFits(TextOf(f))[1]) \notin cache
    /\ \A r \in removed :
          \E f \in cleaned :
             /\ f.entry = r.entry /\ f.attempt = r.attempt
             /\ ReSearchFits(TextOf(f)) # <<>>
             /\ PathOf(ReSearchFits(TextOf(f))[1]) = r.path
    /\ \A f \in fails :
          (f.attempt = 1 /\ f.type = "LightkurveError" /\ produced[f.entry] # <<>>) =>
              /\ i > f.entry
              /\ lcs[f.entry] = produced[f.entry]
              /\ downloads[f.entry] = 2
    /\ stitched.done => (err = NoErr /\ Len(lcs) = Len(srch) /\ pc \in {"plot", "done"})

C3_Witness ==
    /\ stitched.done
    /\ Len(srch) = MaxFiles
    /\ \E f \in ReadFails(1) :
          /\ f.shape = "paren"
          /\ [entry |-> 1, attempt |-> 1, path |-> CachePath(srch[1].idx)] \in removed

\* C4 as stated: an entry that raised an unclassified exception had exactly
\* one attempt, no call of _clean_corrupt_file and no file removed for it.
C4_ExactlyOneAttempt ==
    \A f \in fails :
        f.type = "OtherError" =>
            /\ downloads[f.entry] = 1
            /\ ~\E c \in cleaned : c.entry = f.entry
            /\ ~\E r \in removed : r.entry = f.entry
            /\ Raised /\ err = f

\* C4 amended: the attempt that raised an unclassified exception is the last
\* attempt on its entry, _clean_corrupt_file is not called for it and nothing
\* is removed for it, and the exception leaves the pipeline at once; a
\* LightkurveError, raised by the download or by the normalization, is
\* cleaned up after and, on attempt 1, followed by attempt 2.
C4_UnclassifiedNotRetried ==
    /\ \A f \in fails :
          f.type = "OtherError" =>
              /\ downloads[f.entry] = f.attempt
              /\ f \notin cleaned
              /\ ~\E r \in removed : r.entry = f.entry /\ r.attempt = f.attempt
              /\ Raised /\ err = f
              /\ stderr[Len(stderr)].type = "OtherError"
              /\ ~stitched.done
    /\ \A f \in fails :
          f.type = "LightkurveError" =>
              /\ f \in cleaned
              /\ f.attempt = 1 =>
                    \/ downloads[f.entry] = 2
                    \/ (pc = "stitch" /\ i = f.entry /\ attempt = 2
                        /\ downloads[f.entry] = 1)

C4_Witness ==
    /\ \E f \in fails : f.type = "OtherError" /\ f.attempt = 2 /\ f.entry = 2
    /\ \E f, g \in fails :
          /\ f.type = "LightkurveError" /\ f.stage = "download"
          /\ g.type = "LightkurveError" /\ g.stage = "normalize"
          /\ f.attempt = 1 /\ g.attempt = 1
          /\ downloads[f.entry] = 2 /\ downloads[g.entry] = 2

\* Number of samples of the FluxSeries of the entries before k.
RECURSIVE Offset(_)
Offset(k) == IF k <= 1 THEN 0 ELSE Offset(k - 1) + Len(produced[k - 1])

\* C5: a returned StitchedSeries is the per-entry FluxSeries end to end in
\* batch order: as many samples as they have together, each at its place.
C5_PureConcatenation ==
    stitched.done =>
        /\ Len(stitched.samples) = Offset(Len(srch) + 1)
        /\ \A k \in Entries :
              /\ produced[k] # <<>>
              /\ \A j \in 1..Len(produced[k]) :
                    /\ stitched.samples[Offset(k) + j] = produced[k][j]
                    /\ stitched.samples[Offset(k) + j].idx = srch[k].idx

C5_Witness ==
    /\ stitched.done
    /\ Len(srch) = MaxFiles
    /\ Len(stitched.samples) > Len(srch)
    /\ \E k \in Entries : ReadFails(k) # {} /\ k < Len(srch)

\* C6: every fatal end of a run is one line on stderr, carrying the message
\* of the failure, and a non-zero exit status.
C6_FatalSingleLine ==
    (pc = "done" /\ status # 0) =>
        /\ status > 0
        /\ Len(stderr) = 1
        /\ stderr[1].kind = "message"
        /\ err # NoErr => stderr[1].shape = err.shape

\* C7: the plot is invoked only after gaia_to_tic returned, the search gave a
\* non-empty batch and download_and_stitch returned for all its entries; a
\* search empty at all three cadences ends the run with the "not observed"
\* line and a non-zero status, without any download or plot.
C7_NoPlotOnFailure ==
    /\ plotted =>
          /\ argc = 2 /\ tblLen > 0
          /\ Len(srch) > 0
          /\ stitched.done /\ err = NoErr /\ status = 0
          /\ \A k \in Entries : downloads[k] >= 1
    /\ (status # 0 /\ status # -1) => ~plotted
    /\ (answers = <<0, 0, 0>> /\ pc \notin {"search", "observed"}) =>
          /\ pc = "done"
          /\ status = 1
          /\ stderr = ExitLines("notobserved")
          /\ ~plotted /\ ~stitched.done
          /\ \A k \in DOMAIN downloads : downloads[k] = 0

C7_Witness == answers = <<0, 0, 0>> /\ pc = "done"

\* C9: search_tess_lc queries 20 s, 120 s, 1800 s in that order, stops at the
\* first cadence that has files and returns exactly its result; with files at
\* no cadence it returns an empty result.
C9_CadencePriority ==
    /\ Len(queried) <= 3
    /\ \A k \in 1..Len(queried) : queried[k] = <<20, 120, 1800>>[k]
    /\ Len(answers) = Len(queried)
    /\ \A k \in 1..Len(answers) : k < Len(answers) => answers[k] = 0
    /\ (queried # <<>> /\ pc # "search") =>
          LET last == Len(queried)
          IN  IF answers[last] > 0
              THEN /\ Len(srch) = answers[last]
                   /\ \A j \in 1..Len(srch) :
                         srch[j] = [exptime |-> queried[last], idx |-> j]
              ELSE /\ last = 3
                   /\ srch = <<>>
                   /\ err = NoErr

C9_Witness ==
    /\ pc = "stitch"
    /\ queried = <<20, 120>>
    /\ Len(srch) = MaxFiles

-----------------------------------------------------------------------------
(* Properties of _clean_corrupt_file (SpecClean) *)

\* The file a message names: <<>> or <<path>>.
Named(msg) ==
    IF ReSearchFits(msg) = <<>> THEN <<>> ELSE <<PathOf(ReSearchFits(msg)[1])>>

-----------------------------------------------------------------------------
(* Properties of _to_sap_lightcurve (SpecNorm) *)

UsesSap(obj) == obj.shape = "tpf" \/ "sap_flux" \in obj.cols

UsesSapErr(obj) ==
    \/ obj.shape = "tpf"
    \/ {"sap_flux", "flux_err", "sap_flux_err"} \subseteq obj.cols

\* The channel values the claim says the output is made of.
Channel(obj, row) == IF UsesSap(obj) THEN row.sap_flux ELSE row.flux
ChannelErr(obj, row) == IF UsesSapErr(obj) THEN row.sap_flux_err ELSE row.flux_err

\* The channel values that are numbers, in row order.
ChannelValues(obj) ==
    LET rows == SelectSeq(obj.rows, LAMBDA r : Channel(obj, r) # NaN)
    IN  [k \in 1..Len(rows) |-> Channel(obj, rows[k])]

OutTimes == {nOut[k].time : k \in 1..Len(nOut)}

\* Which input rows the output keeps, whatever its flux values are: in row
\* order, none with a NaN in the chosen channel, and of the others exactly
\* those within 10 sigma of the median.
KeptRows ==
    /\ \A k \in 1..Len(nOut) : nOut[k].time \in 1..Len(nObj.rows)
    /\ \A k \in 1..Len(nOut) - 1 : nOut[k].time < nOut[k + 1].time
    /\ \A t \in 1..Len(nObj.rows) :
          LET v == Channel(nObj, nObj.rows[t])
          IN  t \in OutTimes <=> (v # NaN /\ ~IsOutlier(v, ChannelValues(nObj)))

\* C10 as stated: with an aperture-summed column, the output flux values are
\* the input's aperture-summed values themselves.
C10_RawSapValues ==
    nStep = 1 =>
        /\ KeptRows
        /\ (nObj.shape = "lc" /\ "sap_flux" \in nObj.cols) =>
              \A k \in 1..Len(nOut) :
                  nOut[k].flux.scale * nOut[k].flux.n
                      = nObj.rows[nOut[k].time].sap_flux * nOut[k].flux.d

\* C10 amended: the output flux values are the values of the chosen channel
\* (aperture-summed when the column exists or the object is a pixel file, the
\* default flux otherwise) of the kept rows, as ppm of the median of the
\* channel's non-NaN values; the uncertainty is the aperture-summed one only
\* when both uncertainty columns exist next to sap_flux.
C10_ChannelSelection ==
    nStep = 1 =>
        /\ KeptRows
        /\ \A k \in 1..Len(nOut) :
              LET row == nObj.rows[nOut[k].time]
                  med2 == Median2(ChannelValues(nObj))
              IN  /\ nOut[k].flux.n = 2 * Channel(nObj, row)
                  /\ nOut[k].flux.d = med2
                  /\ nOut[k].flux.scale = 1000000
                  /\ nOut[k].flux_err.n = 2 * ChannelErr(nObj, row)
                  /\ nOut[k].flux_err.d = med2
                  /\ nOut[k].flux_err.scale = 1000000

C10_Witness ==
    /\ nStep = 1
    /\ nObj.shape = "lc"
    /\ nObj.cols = {"sap_flux", "sap_flux_err"}
    /\ Len(nOut) > 2
    /\ Len(nOut) < Len(ChannelValues(nObj))
    /\ Len(ChannelValues(nObj)) < Len(nObj.rows)

====
